---- MODULE Spec2Model ----
(***************************************************************************)
(* Model of src/src/Classifier.py: the column-name utility                 *)
(* clean_and_ensure_unique, the Classifier wrapper (train / predict /      *)
(* predict_proba / save / load) and the module-level helpers               *)
(* save_predictor_model / load_predictor_model.                            *)
(*                                                                         *)
(* A string is a sequence of one-character strings.                        *)
(***************************************************************************)
EXTENDS Integers, Sequences, FiniteSets, TLC

VARIABLES
    names,          \* clean_and_ensure_unique: the argument `names`
    cleaned_names,  \* clean_and_ensure_unique: the local list `cleaned_names`
    seen,           \* clean_and_ensure_unique: the keys of the local dict `seen`
    i,              \* clean_and_ensure_unique: next position of the for loop (1-based)
    pc,             \* clean_and_ensure_unique: "idle" | "clean" | "loop" | "done"
    objs,           \* the Classifier instances, in order of creation
    dirs,           \* the directories that exist
    files,          \* path -> content, for the files that exist
    lastSaved,      \* history: directory -> the instance state at its latest save
    outcome         \* the latest call: what was called, on what, and how it ended

nameVars == <<names, cleaned_names, seen, i, pc>>

clfVars == <<objs, dirs, files, lastSaved, outcome>>

vars == <<names, cleaned_names, seen, i, pc, objs, dirs, files, lastSaved, outcome>>

-----------------------------------------------------------------------------
(* Bounds of the inputs of clean_and_ensure_unique.                         *)

MaxNames == 3

MaxChars == 4

(* Bounds of the Classifier model.                                          *)

MaxObjs == 2

NumModels == 2

NumDirs == 1

\* Characters the bounded inputs are written with.
Alphabet == {"1", "_", "%"}

-----------------------------------------------------------------------------
(* Classifier                                                               *)

Dirs == 1..NumDirs

\* The state of the AutoSklearnClassifier: 0 before any fit, otherwise the
\* ensemble the search ended with.
Unfitted == 0

EngineStates == 0..NumModels

\* self.automl.fit(self.x, self.y), line 88, on an engine in state `engine`:
\* it raises, leaving the engine as it was or without an ensemble, or it
\* returns with an ensemble.
FitResults(engine) ==
    [raised : {TRUE}, engine : {engine, Unfitted}]
        \cup [raised : {FALSE}, engine : EngineStates \ {Unfitted}]

\* self.automl.predict / predict_proba, lines 101 and 113: the engine
\* refuses to predict before it was fitted.
EnginePredictRaises(engine) == IF engine = Unfitted THEN "NotFittedError" ELSE ""

NoCall == [op |-> "none", self |-> 0, dir |-> 0, raised |-> "", ret |-> 0,
           made_dir |-> FALSE]

Call(op, self, dir, raised, ret, made_dir) ==
    [op |-> op, self |-> self, dir |-> dir, raised |-> raised, ret |-> ret,
     made_dir |-> made_dir]

\* Classifier.__init__
NewClassifier ==
    [_is_trained |-> FALSE,
     model_name |-> "auto_sklearn_classifier",
     automl |-> Unfitted]

\* Mutant of TrainObj: the flag is set before fit is called.
TrainObjFlagFirst(obj, fit) ==
    [obj EXCEPT !.automl = fit.engine, !._is_trained = TRUE]

\* Classifier.train: the flag is set after fit returned.
TrainObj(obj, fit) ==
    IF fit.raised
    THEN [obj EXCEPT !.automl = fit.engine]
    ELSE [obj EXCEPT !.automl = fit.engine, !._is_trained = TRUE]

\* joblib.dump of an instance: the class and the instance's attributes.
Pickle(obj) ==
    << "Classifier",
       <<"_is_trained", obj._is_trained>>,
       <<"model_name", obj.model_name>>,
       <<"automl", obj.automl>> >>

PickledAttr(p, key) ==
    LET j == CHOOSE k \in 2..Len(p) : p[k][1] = key IN p[j][2]

\* joblib.load: an instance rebuilt from the pickled attributes.
Unpickle(p) ==
    [_is_trained |-> PickledAttr(p, "_is_trained"),
     model_name |-> PickledAttr(p, "model_name"),
     automl |-> PickledAttr(p, "automl")]

PREDICTOR_FILE_NAME == "predictor.joblib"

\* os.path.join(model_dir_path, PREDICTOR_FILE_NAME)
PredictorPath(dir) == <<dir, PREDICTOR_FILE_NAME>>

\* Mutant of SaveRaises: the "not fitted" guard is missing.
SaveRaisesNoGuard(obj, dir, ds) ==
    IF dir \notin ds THEN "FileNotFoundError" ELSE ""

\* Classifier.save: what it raises ("" when it returns).
SaveRaises(obj, dir, ds) ==
    IF ~obj._is_trained THEN "NotFittedError"
    ELSE IF dir \notin ds THEN "FileNotFoundError"
    ELSE ""

\* Mutant of Dump: a file that exists is left as it is.
DumpKeepExisting(fs, path, content) ==
    IF path \in DOMAIN fs THEN fs
    ELSE [f \in DOMAIN fs \cup {path} |-> IF f = path THEN content ELSE fs[f]]

\* dump(self, os.path.join(model_dir_path, PREDICTOR_FILE_NAME)): the file
\* is created or overwritten.
Dump(fs, path, content) ==
    [f \in DOMAIN fs \cup {path} |-> IF f = path THEN content ELSE fs[f]]

\* Classifier.save: the files after the call.
SaveFiles(obj, dir, ds, fs) ==
    IF SaveRaises(obj, dir, ds) = ""
    THEN Dump(fs, PredictorPath(dir), Pickle(obj))
    ELSE fs

\* History of the saves: the state saved last, and whether that save
\* replaced a file holding another state.
SaveHistory(obj, dir, ds, fs, hist) ==
    IF SaveRaises(obj, dir, ds) = ""
    THEN [d \in DOMAIN hist \cup {dir} |->
             IF d = dir
             THEN [state |-> obj,
                   replaced |-> /\ PredictorPath(dir) \in DOMAIN fs
                                /\ fs[PredictorPath(dir)] # Pickle(obj)]
             ELSE hist[d]]
    ELSE hist

\* Mutant of MakeDirs: the directory is never created.
MakeDirsNever(dir, ds) == ds

\* save_predictor_model, lines 161-162.
MakeDirs(dir, ds) == IF dir \notin ds THEN ds \cup {dir} ELSE ds

\* Classifier.load: the instance read from the directory's file.
LoadObj(dir, fs) == Unpickle(fs[PredictorPath(dir)])

ClfIdle ==
    /\ objs = <<>>
    /\ dirs = {}
    /\ files = <<>>
    /\ lastSaved = <<>>
    /\ outcome = NoCall

NamesIdle ==
    /\ names = <<>>
    /\ cleaned_names = <<>>
    /\ seen = {}
    /\ i = 1
    /\ pc = "idle"

Init ==
    /\ objs = <<>>
    /\ dirs \in SUBSET Dirs
    /\ files = <<>>
    /\ lastSaved = <<>>
    /\ outcome = NoCall
    /\ NamesIdle

\* Classifier(train_input, schema). The training data (x, y, schema) and
\* the configuration are set here and never written again.
Construct ==
    /\ Len(objs) < MaxObjs
    /\ objs' = Append(objs, NewClassifier)
    /\ outcome' = Call("__init__", Len(objs) + 1, 0, "", Len(objs) + 1, FALSE)
    /\ UNCHANGED <<dirs, files, lastSaved, nameVars>>

\* Classifier.train
Train ==
    \E self \in DOMAIN objs :
      \E fit \in FitResults(objs[self].automl) :
        /\ objs' = [objs EXCEPT ![self] = TrainObj(objs[self], fit)]
        /\ outcome' = Call("train", self, 0,
                           IF fit.raised THEN "FitError" ELSE "", 0, FALSE)
        /\ UNCHANGED <<dirs, files, lastSaved, nameVars>>

\* Classifier.predict
Predict ==
    \E self \in DOMAIN objs :
        /\ outcome' = Call("predict", self, 0,
                           EnginePredictRaises(objs[self].automl), 0, FALSE)
        /\ UNCHANGED <<objs, dirs, files, lastSaved, nameVars>>

\* Classifier.predict_proba
PredictProba ==
    \E self \in DOMAIN objs :
        /\ outcome' = Call("predict_proba", self, 0,
                           EnginePredictRaises(objs[self].automl), 0, FALSE)
        /\ UNCHANGED <<objs, dirs, files, lastSaved, nameVars>>

\* Classifier.save
Save ==
    \E self \in DOMAIN objs, dir \in Dirs :
        /\ files' = SaveFiles(objs[self], dir, dirs, files)
        /\ lastSaved' = SaveHistory(objs[self], dir, dirs, files, lastSaved)
        /\ outcome' = Call("save", self, dir,
                           SaveRaises(objs[self], dir, dirs), 0, FALSE)
        /\ UNCHANGED <<objs, dirs, nameVars>>

\* save_predictor_model
SavePredictorModel ==
    \E self \in DOMAIN objs, dir \in Dirs :
        /\ dirs' = MakeDirs(dir, dirs)
        /\ files' = SaveFiles(objs[self], dir, dirs', files)
        /\ lastSaved' = SaveHistory(objs[self], dir, dirs', files, lastSaved)
        /\ outcome' = Call("save_predictor_model", self, dir,
                           SaveRaises(objs[self], dir, dirs'), 0,
                           dirs' # dirs)
        /\ UNCHANGED <<objs, nameVars>>

\* Classifier.load
Load ==
    \E dir \in Dirs :
        /\ IF PredictorPath(dir) \in DOMAIN files
           THEN /\ Len(objs) < MaxObjs
                /\ objs' = Append(objs, LoadObj(dir, files))
                /\ outcome' = Call("load", 0, dir, "", Len(objs) + 1, FALSE)
           ELSE /\ objs' = objs
                /\ outcome' = Call("load", 0, dir, "FileNotFoundError", 0, FALSE)
        /\ UNCHANGED <<dirs, files, lastSaved, nameVars>>

\* load_predictor_model
LoadPredictorModel ==
    \E dir \in Dirs :
        /\ IF PredictorPath(dir) \in DOMAIN files
           THEN /\ Len(objs) < MaxObjs
                /\ objs' = Append(objs, LoadObj(dir, files))
                /\ outcome' = Call("load_predictor_model", 0, dir, "",
                                   Len(objs) + 1, FALSE)
           ELSE /\ objs' = objs
                /\ outcome' = Call("load_predictor_model", 0, dir,
                                   "FileNotFoundError", 0, FALSE)
        /\ UNCHANGED <<dirs, files, lastSaved, nameVars>>

Next ==
    \/ Construct
    \/ Train
    \/ Predict
    \/ PredictProba
    \/ Save
    \/ SavePredictorModel
    \/ Load
    \/ LoadPredictorModel

Spec == Init /\ [][Next]_vars


-----------------------------------------------------------------------------
(* clean_and_ensure_unique                                                  *)

Upper == {"A","B","C","D","E","F","G","H","I","J","K","L","M",
          "N","O","P","Q","R","S","T","U","V","W","X","Y","Z"}

Lower == {"a","b","c","d","e","f","g","h","i","j","k","l","m",
          "n","o","p","q","r","s","t","u","v","w","x","y","z"}

Digits == <<"0","1","2","3","4","5","6","7","8","9">>

\* The character class A-Za-z0-9_ of the pattern on line 40.
WordChars == Upper \cup Lower \cup {Digits[d] : d \in 1..10} \cup {"_"}

\* Mutant of CleanName: the character class lacks the underscore.
CleanNameNoUnderscore(name) ==
    SelectSeq(name, LAMBDA c : c \in WordChars \ {"_"})

\* re.sub("[^A-Za-z0-9_]+", "", name): every run of characters outside the
\* class is replaced by the empty string.
CleanName(name) == SelectSeq(name, LAMBDA c : c \in WordChars)

\* str(counter) for a non-negative integer: its decimal digits.
RECURSIVE Str(_)
Str(n) == IF n < 10 THEN <<Digits[n + 1]>>
          ELSE Str(n \div 10) \o <<Digits[(n % 10) + 1]>>

\* Mutant of WhileSeen: the counter is incremented before it is used.
RECURSIVE WhileSeenIncrementFirst(_, _, _, _)
WhileSeenIncrementFirst(original_name, name, counter, seenKeys) ==
    IF name \in seenKeys
    THEN WhileSeenIncrementFirst(original_name,
                                 original_name \o <<"_">> \o Str(counter + 1),
                                 counter + 1, seenKeys)
    ELSE name

\* The while loop of lines 47-49, entered with `name` and `counter`.
RECURSIVE WhileSeen(_, _, _, _)
WhileSeen(original_name, name, counter, seenKeys) ==
    IF name \in seenKeys
    THEN WhileSeen(original_name, original_name \o <<"_">> \o Str(counter),
                   counter + 1, seenKeys)
    ELSE name

\* Mutant of UniqueName: an `if` in place of the `while`.
UniqueNameOnce(name, seenKeys) ==
    IF name \in seenKeys THEN name \o <<"_">> \o Str(1) ELSE name

\* Lines 45-49: the name stored at the current position.
UniqueName(name, seenKeys) == WhileSeen(name, name, 1, seenKeys)

\* The example of the docstring, lines 35-36.
DocExample == << <<"3","P","%">>, <<"3","P">>, <<"N","a","m","e">>,
                 <<"A","g","e","%">>, <<"A","g","e">> >>

DocResult == << <<"3","P">>, <<"3","P","_","1">>, <<"N","a","m","e">>,
                <<"A","g","e">>, <<"A","g","e","_","1">> >>

\* Strings over Alphabet of length exactly n.
RECURSIVE WordsOfLen(_)
WordsOfLen(n) == IF n = 0 THEN {<<>>}
                 ELSE {<<c>> \o w : c \in Alphabet, w \in WordsOfLen(n - 1)}

\* Lists of exactly n strings over Alphabet holding at most t characters.
RECURSIVE ListsOf(_, _)
ListsOf(n, t) ==
    IF n = 0 THEN {<<>>}
    ELSE UNION {{<<w>> \o l : w \in WordsOfLen(k), l \in ListsOf(n - 1, t - k)}
                : k \in 0..t}

\* An input holding a name that already looks like a suffixed name.
SuffixedExample == << <<"a">>, <<"a">>, <<"a","_","1">> >>

Inputs == UNION {ListsOf(n, MaxChars) : n \in 0..MaxNames}
              \cup {DocExample, SuffixedExample}

InitNames ==
    /\ names \in Inputs
    /\ cleaned_names = <<>>
    /\ seen = {}
    /\ i = 1
    /\ pc = "clean"
    /\ ClfIdle

\* Line 40 and line 43.
CleanNames ==
    /\ pc = "clean"
    /\ cleaned_names' = [j \in 1..Len(names) |-> CleanName(names[j])]
    /\ seen' = {}
    /\ i' = 1
    /\ pc' = "loop"
    /\ UNCHANGED <<names, clfVars>>

\* Mutant of EnsureUnique: membership is tested in the list cleaned_names
\* in place of the dict seen.
EnsureUniqueInList ==
    /\ pc = "loop"
    /\ i <= Len(cleaned_names)
    /\ LET inList == {cleaned_names[j] : j \in 1..Len(cleaned_names)}
           name == UniqueName(cleaned_names[i], inList)
       IN /\ seen' = seen \cup {name}
          /\ cleaned_names' = [cleaned_names EXCEPT ![i] = name]
    /\ i' = i + 1
    /\ UNCHANGED <<names, pc, clfVars>>

\* One iteration of the for loop, lines 44-51.
EnsureUnique ==
    /\ pc = "loop"
    /\ i <= Len(cleaned_names)
    /\ LET name == UniqueName(cleaned_names[i], seen)
       IN /\ seen' = seen \cup {name}
          /\ cleaned_names' = [cleaned_names EXCEPT ![i] = name]
    /\ i' = i + 1
    /\ UNCHANGED <<names, pc, clfVars>>

\* Line 53.
ReturnNames ==
    /\ pc = "loop"
    /\ i > Len(cleaned_names)
    /\ pc' = "done"
    /\ UNCHANGED <<names, cleaned_names, seen, i, clfVars>>

NextNames == CleanNames \/ EnsureUnique \/ ReturnNames

SpecNames == InitNames /\ [][NextNames]_vars

-----------------------------------------------------------------------------
(* Properties of clean_and_ensure_unique, checked under SpecNames.          *)

\* `name` with every character outside A-Z, a-z, 0-9 and underscore removed.
RECURSIVE Stripped(_)
Stripped(name) ==
    IF name = <<>> THEN <<>>
    ELSE IF Head(name) \in WordChars THEN <<Head(name)>> \o Stripped(Tail(name))
    ELSE Stripped(Tail(name))

\* `base` followed by '_' and the decimal integer k.
Suffixed(base, k) == base \o <<"_">> \o Str(k)

\* The names returned at the positions before j.
Before(j) == {cleaned_names[l] : l \in 1..(j - 1)}

\* The cleaned form of input j differs from that of every other input.
CleansApart(j) ==
    \A l \in 1..Len(names) : l # j => Stripped(names[l]) # Stripped(names[j])

(* C1: the list clean_and_ensure_unique returns holds no name twice.        *)
C1_Distinct ==
    pc = "done" =>
        \A a, b \in 1..Len(cleaned_names) :
            a # b => cleaned_names[a] # cleaned_names[b]

\* Two inputs clean to the empty string and a later one is the suffixed
\* name '_1' the second of them would get.
C1_Witness ==
    /\ pc = "done"
    /\ \E a, b, c \in 1..Len(names) :
          /\ a < b /\ b < c
          /\ Stripped(names[a]) = <<>>
          /\ Stripped(names[b]) = <<>>
          /\ names[c] = <<"_", "1">>

(* C2: the result has the length and order of the input; the name at each   *)
(* position is the cleaned form of the input at that position, or that      *)
(* cleaned form followed by '_' and an integer k >= 1; no returned name     *)
(* holds a character outside A-Z, a-z, 0-9 and underscore.                  *)
C2_Shape ==
    pc = "done" =>
        /\ Len(cleaned_names) = Len(names)
        /\ \A j \in 1..Len(names) :
              /\ \/ cleaned_names[j] = Stripped(names[j])
                 \/ \E k \in 1..Len(names) :
                       cleaned_names[j] = Suffixed(Stripped(names[j]), k)
              /\ \A n \in 1..Len(cleaned_names[j]) :
                    cleaned_names[j][n] \in WordChars

\* An input lost characters to the cleaning and a name got a counter.
C2_Witness ==
    /\ pc = "done"
    /\ \E j, l \in 1..Len(names) :
          /\ names[j] # Stripped(names[j])
          /\ Stripped(names[j]) # <<>>
          /\ cleaned_names[l] # Stripped(names[l])

(* C3, as stated: a name whose cleaned form differs from the cleaned form   *)
(* of every other input is returned as exactly its cleaned form.            *)
C3_Original ==
    pc = "done" =>
        \A j \in 1..Len(names) :
            CleansApart(j) => cleaned_names[j] = Stripped(names[j])

(* C3, amended: a name whose cleaned form differs from the cleaned form of  *)
(* every other input, and from every name returned at an earlier position,  *)
(* is returned as exactly its cleaned form.                                 *)
C3_Amended ==
    pc = "done" =>
        \A j \in 1..Len(names) :
            (CleansApart(j) /\ Stripped(names[j]) \notin Before(j))
                => cleaned_names[j] = Stripped(names[j])

\* A name that cleans apart from the others is returned after a name that
\* was given a counter.
C3_Witness ==
    /\ pc = "done"
    /\ \E j, l \in 1..Len(names) :
          /\ l < j
          /\ cleaned_names[l] # Stripped(names[l])
          /\ CleansApart(j)
          /\ Stripped(names[j]) \notin Before(j)
          /\ Stripped(names[j]) # <<>>

(* C7: at every position already processed, the name is the cleaned form    *)
(* of the input if no earlier position returned it, and otherwise the       *)
(* cleaned form followed by '_k' for the smallest k >= 1 that no earlier    *)
(* position returned; the docstring's example yields the docstring's        *)
(* result.                                                                  *)
C7_LeftToRight ==
    /\ pc \in {"loop", "done"} =>
          \A j \in 1..(i - 1) :
              LET c == Stripped(names[j])
              IN IF c \notin Before(j)
                 THEN cleaned_names[j] = c
                 ELSE \E k \in 1..Len(names) :
                         /\ cleaned_names[j] = Suffixed(c, k)
                         /\ Suffixed(c, k) \notin Before(j)
                         /\ \A m \in 1..(k - 1) : Suffixed(c, m) \in Before(j)
    /\ (pc = "done" /\ names = DocExample) => cleaned_names = DocResult

\* A name was returned with the counter 2: the counter 1 was taken.
C7_Witness ==
    /\ pc = "done"
    /\ \E j \in 1..Len(names) :
          cleaned_names[j] = Suffixed(Stripped(names[j]), 2)

-----------------------------------------------------------------------------
(* Properties of the Classifier, checked under Spec.                        *)

SaveOps == {"save", "save_predictor_model"}

\* A save called on an instance that is not trained raises NotFittedError
\* and leaves every file as it was.
C4_Step ==
    (outcome'.op \in SaveOps /\ ~objs[outcome'.self]._is_trained)
        => (outcome'.raised = "NotFittedError" /\ files' = files)

(* C4: save on an instance on which train has not completed raises          *)
(* NotFittedError and writes no predictor.joblib; every predictor.joblib    *)
(* holds a classifier whose _is_trained flag is True.                       *)
C4_NotFittedGuard ==
    /\ [][C4_Step]_vars
    /\ [](\A d \in Dirs :
             <<d, "predictor.joblib">> \in DOMAIN files
                 => PickledAttr(files[<<d, "predictor.joblib">>], "_is_trained"))

\* A save on an untrained instance raised while a file written by an
\* earlier save exists.
C4_Witness ==
    /\ outcome.op \in SaveOps
    /\ outcome.raised = "NotFittedError"
    /\ files # <<>>

(* C5: the instance load_predictor_model returns is a new instance whose    *)
(* state is the state the saved instance had at the latest save to that     *)
(* directory; it is trained and save accepts it.                            *)
C5_RoundTrip ==
    (outcome.op = "load_predictor_model" /\ outcome.raised = "") =>
        /\ outcome.ret = Len(objs)
        /\ objs[outcome.ret] = lastSaved[outcome.dir].state
        /\ objs[outcome.ret]._is_trained
        /\ SaveRaises(objs[outcome.ret], outcome.dir, dirs) = ""

\* A load from a directory whose latest save replaced another state.
C5_Witness ==
    /\ outcome.op = "load_predictor_model"
    /\ outcome.raised = ""
    /\ lastSaved[outcome.dir].replaced

(* C6: after save_predictor_model on a trained instance the call has        *)
(* returned, the directory exists and holds predictor.joblib with that      *)
(* instance, whether the directory existed before or was created.           *)
C6_SaveCreates ==
    (outcome.op = "save_predictor_model" /\ objs[outcome.self]._is_trained) =>
        /\ outcome.raised = ""
        /\ outcome.dir \in dirs
        /\ <<outcome.dir, "predictor.joblib">> \in DOMAIN files
        /\ files[<<outcome.dir, "predictor.joblib">>] = Pickle(objs[outcome.self])

\* save_predictor_model on a trained instance created the directory.
C6_Witness ==
    /\ outcome.op = "save_predictor_model"
    /\ objs[outcome.self]._is_trained
    /\ outcome.made_dir

\* What one call does to the flags.
C8_Step ==
    \A id \in 1..Len(objs') :
        IF id > Len(objs)
        THEN outcome'.op = "__init__" => ~objs'[id]._is_trained
        ELSE /\ objs[id]._is_trained => objs'[id]._is_trained
             /\ (~objs[id]._is_trained /\ objs'[id]._is_trained)
                    => (outcome'.op = "train" /\ outcome'.self = id
                          /\ outcome'.raised = "")
             /\ (outcome'.op = "train" /\ outcome'.self = id)
                    => (objs'[id]._is_trained
                          <=> (objs[id]._is_trained \/ outcome'.raised = ""))
             /\ outcome'.op \in {"predict", "predict_proba", "save"}
                    => objs'[id]._is_trained = objs[id]._is_trained

(* C8: _is_trained is False after construction, becomes True only when      *)
(* train's fit returns normally, stays False when fit raises, and is never  *)
(* set back to False; predict, predict_proba and save never change it.      *)
C8_Flag == [][C8_Step]_vars

\* A train whose fit raised left an untrained instance untrained.
C8_Witness ==
    /\ outcome.op = "train"
    /\ outcome.raised = "FitError"
    /\ ~objs[outcome.self]._is_trained

====
